---------------------------- MODULE Spec2Model ----------------------------
(***************************************************************************)
(* PyDash: the run of GameView (src/game_view.py) as a state machine.      *)
(*                                                                         *)
(* Units.  Time is in milliseconds (COYOTE_TIME 0.08 s is 80), velocities  *)
(* in px/s, positions and sizes in 1/1000 px ("mpx", see Px), so that with *)
(* the tick lengths of DTs every product of the code (speed * dt,          *)
(* GRAVITY * dt, vel_y * dt) is an exact integer: the model computes with  *)
(* the exact values the code's floats approximate.                         *)
(*                                                                         *)
(* A sprite is a record  [id, center_x, center_y, width, height, prop]:    *)
(* an axis-aligned box, prop being the value of its properties dict        *)
(* (speed, dir, strength) and 0 when it has none; id is its index in the   *)
(* level plan it was built from.  A jump-pad strength is in tenths.        *)
(*                                                                         *)
(* Not modelled: textures and animation frames, the background and the     *)
(* decorative ground tiles, on_draw (its shake offset is added and taken   *)
(* back within the call), the pause and menu views.                        *)
(***************************************************************************)
EXTENDS Integers, Sequences, FiniteSets, TLC

\* ------------------------------------------------------------ settings
WIDTH == 960
HEIGHT == 540
DEFAULT_SCROLL_SPEED == 360
FLOOR_Y == 120
PLAYER_SIZE == 48
PLAYER_X == 220
GRAVITY == 1800
JUMP_VEL == 820
COYOTE_TIME == 80
JUMP_BUFFER == 100
COIN_SIZE == 16
SPAWN_START == WIDTH + 80
OB_H == 36
GROUND_H == 40
\* defaults of the optional level keys (data.get(key, default))
DEFAULT_OBSTACLE_WIDTH == 30
DEFAULT_GAP == 240
DEFAULT_GRAVITY_DIR == -1
DEFAULT_STRENGTH == 10
MIN_STRENGTH == 2
\* pruning bound, vertical out-of-bounds margin, dust interval (ms)
PRUNE_X == -200
OOB_MARGIN == 200
DUST_INTERVAL == 40
DUST_COUNT == 2
SPARKLE_COUNT == 12
DEATH_COUNT == 40
SHAKE_TIME == 350
SHAKE_INTENSITY == 6
DUST_GRAVITY == -400
SPARKLE_GRAVITY == 0
DEATH_GRAVITY == -300
\* sizes of the textures the sprites take their boxes from (assets/*.png)
TEX_SPIKE_W == 16
TEX_SPIKE_H == 16
TEX_PORTAL_W == 32
TEX_PORTAL_H == 64
TEX_PAD_W == 32
TEX_PAD_H == 16

\* ------------------------------------------------------------ bounds
\* ticks and jump requests explored in one run (from one setup to the next)
MaxTicks == 5
MaxJumps == 2
\* the time (ms) an ended run is followed for after its tick budget is spent
MaxDeadTime == 1040
\* the frame lengths a tick is called with (ms)
DTs == {20, 40}

\* ------------------------------------------------------------ arithmetic
Px(n) == n * 1000

Max(a, b) == IF a >= b THEN a ELSE b
Min(a, b) == IF a <= b THEN a ELSE b

\* int(x) of a JSON number given in thousandths: truncation towards zero
PyInt(m) == IF m >= 0 THEN m \div 1000 ELSE -((-m) \div 1000)

\* int(round(n / d)) for n >= 0, d > 0: Python 3 rounds halves to even
PyRoundDiv(n, d) ==
    LET q == n \div d
        r == n % d
    IN  IF 2 * r < d THEN q
        ELSE IF 2 * r > d THEN q + 1
        ELSE IF q % 2 = 0 THEN q ELSE q + 1

\* data.get(key, default)
Get(d, k, default) == IF k \in DOMAIN d THEN d[k] ELSE default

\* ------------------------------------------------------------ random
(* random.random() is a generator with a state: rng.  The model's          *)
(* generator has RngMod states and yields u = rng / RngMod; every call     *)
(* steps it.  The angles u * tau are then quarter turns, whose cosine and  *)
(* sine are exact.                                                         *)
QuarterCos == <<1, 0, -1, 0>>
QuarterSin == <<0, 1, 0, -1>>
RngMod == Len(QuarterCos)
\* the generator's state after k more calls
RngAt(rng, k) == (rng + k) % RngMod
\* lo + random.random() * span, with the draw of state r
Uniform(r, lo, span) == lo + (span * r) \div RngMod

\* ------------------------------------------------------------ sprites
Left(s) == s.center_x - s.width \div 2
Right(s) == s.center_x + s.width \div 2
Bottom(s) == s.center_y - s.height \div 2
Top(s) == s.center_y + s.height \div 2

\* arcade.check_for_collision: the boxes intersect (touching edges do not)
Collides(a, b) ==
    /\ Left(a) < Right(b) /\ Left(b) < Right(a)
    /\ Bottom(a) < Top(b) /\ Bottom(b) < Top(a)

\* arcade.check_for_collision_with_list: the sprites of lst that a overlaps
CheckForCollisionWithList(a, lst) == SelectSeq(lst, LAMBDA s : Collides(a, s))

Sprite(id, cx, cy, w, h, prop) ==
    [id |-> id, center_x |-> cx, center_y |-> cy, width |-> w, height |-> h,
     prop |-> prop]

Ids(lst) == {lst[i].id : i \in 1..Len(lst)}

RECURSIVE MaxTop(_)
MaxTop(lst) ==
    IF Len(lst) = 1 THEN Top(lst[1]) ELSE Max(Top(lst[1]), MaxTop(Tail(lst)))

RECURSIVE MinBottom(_)
MinBottom(lst) ==
    IF Len(lst) = 1 THEN Bottom(lst[1]) ELSE Min(Bottom(lst[1]), MinBottom(Tail(lst)))

\* ------------------------------------------------------------ levels
(* The level files.  A value read with int() is given in thousandths (J    *)
(* for a whole number), a speed in px/s, a strength in tenths.             *)
J(n) == n * 1000

Levels == <<
    \* 1: a low corridor with gravity portals, the first two without "dir"
    [ floor_y |-> J(234),
      obstacles |-> << [gap |-> J(240), width |-> J(30)], [num |-> J(300)] >>,
      gravity_portals |-> << [x |-> J(290)], [x |-> J(300)],
                             [x |-> J(346), dir |-> J(1)] >> ],
    \* 2: fast scroll with coins, portals and pads close to the player
    [ scroll_speed |-> 10000, player_x |-> 220500, default_obstacle_width |-> J(40),
      obstacles |-> << [gap |-> J(300)], [num |-> J(240)], [width |-> J(36)] >>,
      coins |-> << [x |-> J(444), y |-> J(150)], [x |-> -195500, y |-> J(150)] >>,
      speed_portals |-> << [x |-> J(640), speed |-> 5000] >>,
      gravity_portals |-> << [x |-> J(444), dir |-> J(1)], [x |-> J(650), dir |-> J(-1)] >>,
      jump_pads |-> << [x |-> J(450), strength |-> 20], [x |-> J(460), strength |-> -10],
                       [x |-> J(660), strength |-> 200], [x |-> J(860)] >> ],
    \* 3: fast scroll over a weak pad into the first obstacle, a coin inside it
    [ scroll_speed |-> 10000,
      obstacles |-> << [num |-> J(240)], [num |-> J(300)] >>,
      coins |-> << [x |-> J(1055), y |-> J(130)] >>,
      jump_pads |-> << [x |-> J(450), strength |-> 2] >> ],
    \* 4: a file without the obstacles list
    [ scroll_speed |-> 360, coins |-> << [x |-> J(500), y |-> J(150)] >> ],
    \* 5: a file whose second obstacle entry is the string "wide"
    [ scroll_speed |-> 500,
      obstacles |-> << [gap |-> J(200)], [str |-> "wide"], [gap |-> J(300)] >> ],
    \* 6: an empty level at a very high scroll speed
    [ scroll_speed |-> 60000, obstacles |-> << >> ]
>>

\* level_loader.load_level: the file's data, or an error
load_level(path) ==
    LET data == Levels[path]
    IN  IF "obstacles" \in DOMAIN data
        THEN [ok |-> TRUE, data |-> data]
        ELSE [ok |-> FALSE, data |-> data]

\* ------------------------------------------------------------ state
VARIABLES
    level_path,   \* GameView.level_path: the level file (an index of Levels)
    raised,       \* an exception left a handler: the event loop has ended
    self,         \* the GameView object: a record of its fields
    rng,          \* the state of the random module's generator
    ev,           \* history: what the last operation did
    hist,         \* history: what the run did since the last setup
    last,         \* history: the last operation, its dt and the state before it
    ticks,        \* history: on_update calls since the last setup (to MaxTicks)
    jumps         \* history: jump requests since the last setup

vars == <<level_path, raised, self, rng, ev, hist, last, ticks, jumps>>

NoEvents ==
    [landed |-> FALSE, jumped |-> FALSE, coins |-> {}, portals |-> {},
     gportals |-> {}, flipped |-> FALSE, pads |-> {}, died |-> FALSE,
     pruned |-> {}]

\* ------------------------------------------------------------ setup
\* lines 133-137: int() of an obstacle entry raises ValueError on a string
Unreadable(item) == "str" \in DOMAIN item

\* the obstacle entries read before the first one that raises
ReadableEntries(obstacles) ==
    LET bad == {k \in 1..Len(obstacles) : Unreadable(obstacles[k])}
    IN  IF bad = {} THEN obstacles
        ELSE SubSeq(obstacles, 1, (CHOOSE k \in bad : \A j \in bad : k <= j) - 1)

\* whether setup() ends with an exception: in load_level (line 125) or in
\* the obstacle loop (lines 133-138)
SetupRaises(res) ==
    \/ ~res.ok
    \/ \E k \in 1..Len(res.data.obstacles) : Unreadable(res.data.obstacles[k])

\* lines 131-138: the obstacle plan, (gap, width) in px
ObstaclePlan(data) ==
    LET default_w == PyInt(Get(data, "default_obstacle_width", J(DEFAULT_OBSTACLE_WIDTH)))
        entry(item) ==
            IF "num" \in DOMAIN item
            THEN <<PyInt(item.num), default_w>>
            ELSE <<PyInt(Get(item, "gap", J(DEFAULT_GAP))),
                   PyInt(Get(item, "width", J(default_w)))>>
        items == ReadableEntries(data.obstacles)
    IN  [k \in 1..Len(items) |-> entry(items[k])]

CoinPlan(data) ==
    LET cs == Get(data, "coins", <<>>)
    IN  [k \in 1..Len(cs) |-> <<PyInt(cs[k].x), PyInt(cs[k].y)>>]

PortalPlan(data) ==
    LET ps == Get(data, "speed_portals", <<>>)
    IN  [k \in 1..Len(ps) |-> <<PyInt(ps[k].x), ps[k].speed>>]

GravityPlan(data) ==
    LET ps == Get(data, "gravity_portals", <<>>)
    IN  [k \in 1..Len(ps) |->
            <<PyInt(ps[k].x), PyInt(Get(ps[k], "dir", J(DEFAULT_GRAVITY_DIR)))>>]

JumpPadPlan(data) ==
    LET ps == Get(data, "jump_pads", <<>>)
    IN  [k \in 1..Len(ps) |-> <<PyInt(ps[k].x), Get(ps[k], "strength", DEFAULT_STRENGTH)>>]

\* the left edge (px) of the k-th obstacle: x starts at SPAWN_START and
\* grows by each gap after the obstacle is placed
RECURSIVE SpawnX(_, _)
SpawnX(plan, k) == IF k = 1 THEN SPAWN_START ELSE SpawnX(plan, k - 1) + plan[k - 1][1]

\* the obstacle centred on x instead of starting at x
CreateObstacle_Centred(id, x, w, floor_y) ==
    Sprite(id, Px(x), Px(floor_y) + Px(OB_H) \div 2, Px(w), Px(OB_H), 0)

\* _create_obstacle(x, w, floor_y)
CreateObstacle(id, x, w, floor_y) ==
    Sprite(id, Px(x) + Px(w) \div 2, Px(floor_y) + Px(OB_H) \div 2, Px(w), Px(OB_H), 0)

\* _create_spikes_for_obstacle(ob): the spikes of one obstacle
SpikeCount(ob) == Max(1, PyRoundDiv(ob.width, Px(TEX_SPIKE_W)))

CreateSpikesForObstacle(ob) ==
    LET count == SpikeCount(ob)
    IN  [i \in 1..count |->
            Sprite(<<ob.id, i>>,
                   Left(ob) + (ob.width * (2 * (i - 1) + 1)) \div (2 * count),
                   Top(ob) + Px(TEX_SPIKE_H) \div 2,
                   Px(TEX_SPIKE_W), Px(TEX_SPIKE_H), 0)]

RECURSIVE Flatten(_)
Flatten(seqs) == IF seqs = <<>> THEN <<>> ELSE Head(seqs) \o Flatten(Tail(seqs))

\* lines 40-118: the object __init__ builds before it calls setup()
Constructed ==
    [ scroll_speed |-> DEFAULT_SCROLL_SPEED,
      obstacle_plan |-> <<>>, coin_plan |-> <<>>, portal_plan |-> <<>>,
      gravity_plan |-> <<>>, jump_pad_plan |-> <<>>,
      ground |-> Sprite(0, 0, 0, 0, 0, 0), ceiling |-> Sprite(0, 0, 0, 0, 0, 0),
      player |-> Sprite(0, 0, 0, 0, 0, 0),
      vel_y |-> 0, gravity_dir |-> 1, on_ground |-> FALSE,
      coyote_timer |-> 0, jump_buffer_timer |-> 0,
      alive |-> TRUE, time_alive |-> 0, score |-> 0,
      obstacles |-> <<>>, spikes |-> <<>>, next_spawn_x |-> SPAWN_START,
      coins |-> <<>>, portals |-> <<>>, gravity_portals |-> <<>>, jump_pads |-> <<>>,
      dust_particles |-> <<>>, sparkle_particles |-> <<>>, death_particles |-> <<>>,
      dust_accum |-> 0, shake_time |-> 0, shake_intensity |-> 0 ]

\* the values setup() assigns, the level data read
SetupState(data) ==
    LET floor_y == PyInt(Get(data, "floor_y", J(FLOOR_Y)))
        player_x == PyInt(Get(data, "player_x", J(PLAYER_X)))
        obstacle_plan == ObstaclePlan(data)
        coin_plan == CoinPlan(data)
        portal_plan == PortalPlan(data)
        gravity_plan == GravityPlan(data)
        jump_pad_plan == JumpPadPlan(data)
        obs == [k \in 1..Len(obstacle_plan) |->
                   CreateObstacle(k, SpawnX(obstacle_plan, k), obstacle_plan[k][2], floor_y)]
    IN  [ scroll_speed |-> Get(data, "scroll_speed", DEFAULT_SCROLL_SPEED),
          obstacle_plan |-> obstacle_plan,
          coin_plan |-> coin_plan,
          portal_plan |-> portal_plan,
          gravity_plan |-> gravity_plan,
          jump_pad_plan |-> jump_pad_plan,
          ground |-> Sprite(0, Px(WIDTH * 2), Px(floor_y) - Px(GROUND_H) \div 2,
                            Px(WIDTH * 4), Px(GROUND_H), 0),
          ceiling |-> Sprite(0, Px(WIDTH * 2), Px(HEIGHT - floor_y) + Px(GROUND_H) \div 2,
                             Px(WIDTH * 4), Px(GROUND_H), 0),
          player |-> Sprite(0, Px(player_x) + Px(PLAYER_SIZE) \div 2,
                            Px(floor_y) + Px(PLAYER_SIZE) \div 2,
                            Px(PLAYER_SIZE), Px(PLAYER_SIZE), 0),
          vel_y |-> 0,
          gravity_dir |-> 1,
          on_ground |-> TRUE,
          coyote_timer |-> 0,
          jump_buffer_timer |-> 0,
          alive |-> TRUE,
          time_alive |-> 0,
          score |-> 0,
          obstacles |-> obs,
          spikes |-> Flatten([k \in 1..Len(obs) |-> CreateSpikesForObstacle(obs[k])]),
          next_spawn_x |-> SpawnX(obstacle_plan, Len(obstacle_plan) + 1),
          coins |-> [k \in 1..Len(coin_plan) |->
                        Sprite(k, Px(coin_plan[k][1]), Px(coin_plan[k][2]),
                               Px(COIN_SIZE), Px(COIN_SIZE), 0)],
          portals |-> [k \in 1..Len(portal_plan) |->
                          Sprite(k, Px(portal_plan[k][1]),
                                 Px(floor_y) + Px(TEX_PORTAL_H) \div 2,
                                 Px(TEX_PORTAL_W), Px(TEX_PORTAL_H), portal_plan[k][2])],
          gravity_portals |-> [k \in 1..Len(gravity_plan) |->
                          Sprite(k, Px(gravity_plan[k][1]),
                                 Px(floor_y) + Px(TEX_PORTAL_H) \div 2,
                                 Px(TEX_PORTAL_W), Px(TEX_PORTAL_H),
                                 IF gravity_plan[k][2] >= 0 THEN 1 ELSE -1)],
          jump_pads |-> [k \in 1..Len(jump_pad_plan) |->
                          Sprite(k, Px(jump_pad_plan[k][1]),
                                 Px(floor_y) + Px(TEX_PAD_H) \div 2,
                                 Px(TEX_PAD_W), Px(TEX_PAD_H),
                                 Max(MIN_STRENGTH, jump_pad_plan[k][2]))],
          dust_particles |-> <<>>,
          sparkle_particles |-> <<>>,
          death_particles |-> <<>>,
          dust_accum |-> 0,
          shake_time |-> 0,
          shake_intensity |-> 0 ]

\* the restart that forgets the player's physics state
Setup_KeepsPhysics(s, data) ==
    [SetupState(data) EXCEPT !.gravity_dir = s.gravity_dir, !.vel_y = s.vel_y,
                             !.on_ground = s.on_ground]

\* GameView.setup on the object s: every field of s is assigned
Setup(s, data) == SetupState(data)

\* GameView.setup on the object s when it raises: nothing is assigned if
\* load_level raised (line 125); otherwise scroll_speed (line 127) and the
\* obstacle plan up to the entry that raised (lines 131-138) are
SetupRaised(s, res) ==
    IF ~res.ok THEN s
    ELSE [s EXCEPT !.scroll_speed = Get(res.data, "scroll_speed", DEFAULT_SCROLL_SPEED),
                   !.obstacle_plan = ObstaclePlan(res.data)]

\* what the level file may hold when setup() reads it: the level the view
\* was built from, or a file that makes setup() raise
Disk(path) == {path} \cup {f \in 1..Len(Levels) : SetupRaises(load_level(f))}

\* ------------------------------------------------------------ particles
Particle(x, y, vx, vy, life) ==
    [x |-> x, y |-> y, vx |-> vx, vy |-> vy, life |-> life, start_life |-> life]

\* Particle.update(dt, gravity)
ParticleUpdate(p, dt, gravity) ==
    LET vy == p.vy + (gravity * dt) \div 1000
    IN  [p EXCEPT !.life = @ - dt, !.vy = vy, !.x = @ + p.vx * dt, !.y = @ + vy * dt]

\* the particle that is kept when its life has just run out
ParticleAlive_KeepsZero(p) == p.life >= 0

\* Particle.alive
ParticleAlive(p) == p.life > 0

\* one pool of _update_particles: update every particle, drop the expired
UpdatePool(lst, dt, gravity) ==
    SelectSeq([i \in 1..Len(lst) |-> ParticleUpdate(lst[i], dt, gravity)], ParticleAlive)

\* _update_particles(dt)
UpdateParticles(s, dt) ==
    [s EXCEPT !.dust_particles = UpdatePool(@, dt, DUST_GRAVITY),
              !.sparkle_particles = UpdatePool(@, dt, SPARKLE_GRAVITY),
              !.death_particles = UpdatePool(@, dt, DEATH_GRAVITY)]

\* the shake timer that runs on below zero
UpdateShake_NoClamp(s, dt) ==
    IF s.shake_time > 0
    THEN [s EXCEPT !.shake_time = s.shake_time - dt]
    ELSE s

\* _update_shake(dt)
UpdateShake(s, dt) ==
    IF s.shake_time > 0
    THEN [s EXCEPT !.shake_time = Max(0, s.shake_time - dt)]
    ELSE s

\* the draws of one particle: dust 4 (vx, vy, life, r), sparkle 4 (ang, spd,
\* life, r), death 5 (ang, spd, life, r, color)
DustDraws == 4
SparkleDraws == 4
DeathDraws == 5

\* the i-th particle (from 0) of a dust burst drawn from generator state r
DustParticle(s, r, i) ==
    LET r0 == RngAt(r, DustDraws * i)
    IN  Particle(s.player.center_x - (s.player.width * 45) \div 100,
                 s.player.center_y - (s.player.height \div 2) * s.gravity_dir,
                 -(Uniform(r0, 80, 80)),
                 Uniform(RngAt(r0, 1), 60, 40) * s.gravity_dir,
                 Uniform(RngAt(r0, 2), 350, 150))

\* the bursts the while loop of _emit_dust emits for an accumulator value
DustBursts(accum) == IF accum >= DUST_INTERVAL THEN accum \div DUST_INTERVAL ELSE 0

\* _emit_dust(dt)
EmitDust(s, r, dt) ==
    LET accum == s.dust_accum + dt
        n == DustBursts(accum) * DUST_COUNT
    IN  IF ~s.on_ground
        THEN [s EXCEPT !.dust_accum = accum]
        ELSE [s EXCEPT !.dust_accum = accum - DustBursts(accum) * DUST_INTERVAL,
                       !.dust_particles = @ \o [i \in 1..n |-> DustParticle(s, r, i - 1)]]

\* _emit_coin_sparkles(x, y), the generator in state r
CoinSparkles(x, y, r) ==
    [i \in 1..SPARKLE_COUNT |->
        LET r0 == RngAt(r, SparkleDraws * (i - 1))
            spd == Uniform(RngAt(r0, 1), 120, 120)
        IN  Particle(x, y, QuarterCos[r0 + 1] * spd, QuarterSin[r0 + 1] * spd,
                     Uniform(RngAt(r0, 2), 400, 200))]

\* the particles of _emit_death_burst(x, y), the generator in state r
DeathBurst(x, y, r) ==
    [i \in 1..DEATH_COUNT |->
        LET r0 == RngAt(r, DeathDraws * (i - 1))
            spd == Uniform(RngAt(r0, 1), 150, 250)
        IN  Particle(x, y, QuarterCos[r0 + 1] * spd, QuarterSin[r0 + 1] * spd,
                     Uniform(RngAt(r0, 2), 600, 400))]

\* _emit_death_burst(x, y)
EmitDeathBurst(s, r) ==
    [s EXCEPT !.death_particles = @ \o DeathBurst(s.player.center_x, s.player.center_y, r),
              !.shake_time = SHAKE_TIME,
              !.shake_intensity = SHAKE_INTENSITY]

\* ------------------------------------------------------------ jumping
\* the jump that leaves the request in the buffer
DoJump_KeepsBuffer(s) ==
    [s EXCEPT !.vel_y = JUMP_VEL * s.gravity_dir,
              !.on_ground = FALSE,
              !.coyote_timer = 0]

\* the jump that leaves the coyote time running
DoJump_KeepsCoyote(s) ==
    [s EXCEPT !.vel_y = JUMP_VEL * s.gravity_dir,
              !.on_ground = FALSE,
              !.jump_buffer_timer = 0]

\* _do_jump
DoJump(s) ==
    [s EXCEPT !.vel_y = JUMP_VEL * s.gravity_dir,
              !.on_ground = FALSE,
              !.coyote_timer = 0,
              !.jump_buffer_timer = 0]

\* whether _queue_jump executes the jump at once
JumpsNow(s) == s.on_ground \/ s.coyote_timer > 0

\* the jump key that restarts a finished run
QueueJump_Revives(s) ==
    IF ~s.alive THEN [s EXCEPT !.alive = TRUE]
    ELSE LET b == [s EXCEPT !.jump_buffer_timer = JUMP_BUFFER]
         IN  IF JumpsNow(b) THEN DoJump(b) ELSE b

\* the jump request that does not look at alive
QueueJump_NoAliveCheck(s) ==
    LET b == [s EXCEPT !.jump_buffer_timer = JUMP_BUFFER]
    IN  IF JumpsNow(b) THEN DoJump(b) ELSE b

\* _queue_jump
QueueJump(s) ==
    IF ~s.alive THEN s
    ELSE LET b == [s EXCEPT !.jump_buffer_timer = JUMP_BUFFER]
         IN  IF JumpsNow(b) THEN DoJump(b) ELSE b

\* ------------------------------------------------------------ the tick
Shift(lst, dx) == [i \in 1..Len(lst) |-> [lst[i] EXCEPT !.center_x = @ - dx]]

\* lines 370-375: the world scroll
WorldScroll(s, dt) ==
    LET dx == s.scroll_speed * dt
    IN  [s EXCEPT !.ground.center_x = @ - dx,
                  !.ceiling.center_x = @ - dx,
                  !.obstacles = Shift(@, dx),
                  !.spikes = Shift(@, dx),
                  !.coins = Shift(@, dx),
                  !.portals = Shift(@, dx),
                  !.gravity_portals = Shift(@, dx),
                  !.jump_pads = Shift(@, dx)]

\* lines 377-382: extend the colliders
ExtendColliders(s) ==
    IF Right(s.ground) < Px(WIDTH * 2)
    THEN [s EXCEPT !.ground.width = @ + Px(WIDTH), !.ceiling.width = @ + Px(WIDTH)]
    ELSE s

\* line 390: the collections the prune loop walks
Collections == {"obstacles", "spikes", "coins", "portals", "gravity_portals", "jump_pads"}

\* the entities of s, each named by its collection and its id
Entities(s) == UNION {{<<c, s[c][i].id>> : i \in 1..Len(s[c])} : c \in Collections}

\* the prune test that takes everything left of the origin
OnScreen_Origin(sp) == ~(Right(sp) < 0)

\* whether the prune loop keeps a sprite
OnScreen(sp) == ~(Right(sp) < Px(PRUNE_X))

\* lines 389-393: prune off-screen
PruneOffscreen(s) ==
    [s EXCEPT !.obstacles = SelectSeq(@, OnScreen),
              !.spikes = SelectSeq(@, OnScreen),
              !.coins = SelectSeq(@, OnScreen),
              !.portals = SelectSeq(@, OnScreen),
              !.gravity_portals = SelectSeq(@, OnScreen),
              !.jump_pads = SelectSeq(@, OnScreen)]

\* lines 395-397: vertical physics with the gravity sign
Integrate(s, dt) ==
    LET v == s.vel_y + ((-GRAVITY * s.gravity_dir) * dt) \div 1000
    IN  [s EXCEPT !.vel_y = v, !.player.center_y = @ + v * dt]

\* the colliders the contact step tests, and whether it lands on them
ContactHits(s) ==
    IF s.gravity_dir > 0
    THEN CheckForCollisionWithList(s.player, <<s.ground>>)
    ELSE CheckForCollisionWithList(s.player, <<s.ceiling>>)

Lands(s) ==
    /\ ContactHits(s) # <<>>
    /\ IF s.gravity_dir > 0 THEN s.vel_y <= 0 ELSE s.vel_y >= 0

\* the contact step that stops the player where it is
Contacts_NoSnap(s) ==
    IF ~Lands(s) THEN [s EXCEPT !.on_ground = FALSE]
    ELSE [s EXCEPT !.vel_y = 0, !.on_ground = TRUE]

\* lines 399-414: ground / ceiling contacts
Contacts(s) ==
    IF ~Lands(s) THEN [s EXCEPT !.on_ground = FALSE]
    ELSE IF s.gravity_dir > 0
    THEN [s EXCEPT !.player.center_y = MaxTop(ContactHits(s)) + s.player.height \div 2,
                   !.vel_y = 0, !.on_ground = TRUE]
    ELSE [s EXCEPT !.player.center_y = MinBottom(ContactHits(s)) - s.player.height \div 2,
                   !.vel_y = 0, !.on_ground = TRUE]

\* the coyote timer that a grounded tick does not refill
CoyoteStep_NoRefill(s, dt) ==
    [s EXCEPT !.coyote_timer = Max(0, s.coyote_timer - dt)]

\* lines 417-420: the coyote timer
CoyoteStep(s, dt) ==
    IF s.on_ground
    THEN [s EXCEPT !.coyote_timer = COYOTE_TIME]
    ELSE [s EXCEPT !.coyote_timer = Max(0, s.coyote_timer - dt)]

\* whether the buffer step executes the buffered jump
BufferFires(s) == s.jump_buffer_timer > 0 /\ (s.on_ground \/ s.coyote_timer > 0)

\* the jump buffer that decays before it is looked at
BufferStep_DecaysFirst(s, dt) ==
    LET d == [s EXCEPT !.jump_buffer_timer = @ - dt]
    IN  IF s.jump_buffer_timer > 0
        THEN IF BufferFires(d) THEN DoJump(d) ELSE d
        ELSE s

\* lines 421-425: the jump buffer
BufferStep(s, dt) ==
    IF s.jump_buffer_timer > 0
    THEN IF BufferFires(s) THEN DoJump(s)
         ELSE [s EXCEPT !.jump_buffer_timer = @ - dt]
    ELSE s

Without(lst, ids) == SelectSeq(lst, LAMBDA sp : sp.id \notin ids)

\* lines 439-443: coins; the generator is in state r
RECURSIVE Sparkles(_, _)
Sparkles(hits, r) ==
    IF hits = <<>> THEN <<>>
    ELSE CoinSparkles(hits[1].center_x, hits[1].center_y, r)
         \o Sparkles(Tail(hits), RngAt(r, SparkleDraws * SPARKLE_COUNT))

\* the coin step that scores a coin and leaves it in place
CollectCoins_KeepsCoins(s, r) ==
    LET hits == CheckForCollisionWithList(s.player, s.coins)
    IN  [s EXCEPT !.sparkle_particles = @ \o Sparkles(hits, r),
                  !.score = @ + 10 * Len(hits)]

\* the coin step of a tick that tests the obstacles first and stops there
CollectCoins_AfterObstacles(s, r) ==
    LET hits == CheckForCollisionWithList(s.player, s.coins)
    IN  IF CheckForCollisionWithList(s.player, s.obstacles) # <<>> THEN s
        ELSE [s EXCEPT !.sparkle_particles = @ \o Sparkles(hits, r),
                       !.coins = Without(@, Ids(hits)),
                       !.score = @ + 10 * Len(hits)]

\* lines 439-443: coins
CollectCoins(s, r) ==
    LET hits == CheckForCollisionWithList(s.player, s.coins)
    IN  [s EXCEPT !.sparkle_particles = @ \o Sparkles(hits, r),
                  !.coins = Without(@, Ids(hits)),
                  !.score = @ + 10 * Len(hits)]

\* lines 445-448: speed portals, each in turn
RECURSIVE LastSpeed(_, _)
LastSpeed(hits, speed) ==
    IF hits = <<>> THEN speed ELSE LastSpeed(Tail(hits), hits[1].prop)

\* the speed portal that is left in place
SpeedPortals_KeepsPortal(s) ==
    LET hits == CheckForCollisionWithList(s.player, s.portals)
    IN  [s EXCEPT !.scroll_speed = LastSpeed(hits, @)]

SpeedPortals(s) ==
    LET hits == CheckForCollisionWithList(s.player, s.portals)
    IN  [s EXCEPT !.scroll_speed = LastSpeed(hits, @),
                  !.portals = Without(@, Ids(hits))]

\* the portal that turns gravity and keeps the velocity
GravityPortalHit_KeepsVelocity(s, gport) ==
    LET new_dir == IF gport.prop \in {1, -1} THEN gport.prop ELSE -s.gravity_dir
    IN  [s EXCEPT !.gravity_dir = new_dir,
                  !.gravity_portals = Without(@, {gport.id})]

\* lines 452-458: one gravity portal
GravityPortalHit(s, gport) ==
    LET new_dir == IF gport.prop \in {1, -1} THEN gport.prop ELSE -s.gravity_dir
        t == IF new_dir # s.gravity_dir
             THEN [s EXCEPT !.gravity_dir = new_dir, !.vel_y = 0]
             ELSE s
    IN  [t EXCEPT !.gravity_portals = Without(@, {gport.id})]

RECURSIVE GravityPortalLoop(_, _)
GravityPortalLoop(s, hits) ==
    IF hits = <<>> THEN s
    ELSE GravityPortalLoop(GravityPortalHit(s, hits[1]), Tail(hits))

\* lines 450-458: gravity portals
GravityPortals(s) ==
    GravityPortalLoop(s, CheckForCollisionWithList(s.player, s.gravity_portals))

\* the velocity a pad aims at (its strength is in tenths)
PadTarget(s, pad) == (JUMP_VEL * s.gravity_dir * pad.prop) \div 10

\* the pad that sets its velocity whatever the player's
JumpPadHit_AlwaysSets(s, pad) ==
    [s EXCEPT !.vel_y = PadTarget(s, pad), !.on_ground = FALSE, !.coyote_timer = 0,
              !.jump_pads = Without(@, {pad.id})]

\* the pad that leaves the coyote time running
JumpPadHit_KeepsCoyote(s, pad) ==
    LET target_v == PadTarget(s, pad)
        t == IF \/ (s.gravity_dir > 0 /\ s.vel_y < target_v)
                \/ (s.gravity_dir < 0 /\ s.vel_y > target_v)
             THEN [s EXCEPT !.vel_y = target_v]
             ELSE s
    IN  [t EXCEPT !.on_ground = FALSE, !.jump_pads = Without(@, {pad.id})]

\* lines 462-468: one jump pad
JumpPadHit(s, pad) ==
    LET target_v == PadTarget(s, pad)
        t == IF \/ (s.gravity_dir > 0 /\ s.vel_y < target_v)
                \/ (s.gravity_dir < 0 /\ s.vel_y > target_v)
             THEN [s EXCEPT !.vel_y = target_v]
             ELSE s
    IN  [t EXCEPT !.on_ground = FALSE, !.coyote_timer = 0,
                  !.jump_pads = Without(@, {pad.id})]

RECURSIVE JumpPadLoop(_, _)
JumpPadLoop(s, hits) ==
    IF hits = <<>> THEN s ELSE JumpPadLoop(JumpPadHit(s, hits[1]), Tail(hits))

\* lines 460-468: jump pads
JumpPads(s) == JumpPadLoop(s, CheckForCollisionWithList(s.player, s.jump_pads))

\* the death check that forgets the vertical bounds
Fatal_ObstaclesOnly(s) == CheckForCollisionWithList(s.player, s.obstacles) # <<>>

\* lines 471-472: the condition that ends the run
Fatal(s) ==
    \/ CheckForCollisionWithList(s.player, s.obstacles) # <<>>
    \/ s.player.center_y < Px(-OOB_MARGIN)
    \/ s.player.center_y > Px(HEIGHT + OOB_MARGIN)

\* the death check that takes the obstacle the player ran into
DeathCheck_RemovesObstacle(s, r) ==
    IF Fatal(s)
    THEN EmitDeathBurst(
             [s EXCEPT !.alive = FALSE,
                       !.obstacles = Without(@, Ids(CheckForCollisionWithList(s.player, @)))],
             r)
    ELSE s

\* lines 470-474: death / out of bounds
DeathCheck(s, r) ==
    IF Fatal(s) THEN EmitDeathBurst([s EXCEPT !.alive = FALSE], r) ELSE s

(* An alive tick of on_update, step by step in the order of the code: the  *)
(* object after each step, the generator after the tick and what the tick  *)
(* did.  s is the object and r the generator before the tick.              *)
AliveTick(s, r, dt) ==
    LET timed == [s EXCEPT !.time_alive = @ + dt]
        scrolled == WorldScroll(timed, dt)
        extended == ExtendColliders(scrolled)
        pruned == PruneOffscreen(extended)
        integrated == Integrate(pruned, dt)
        contacts == Contacts(integrated)
        coyote == CoyoteStep(contacts, dt)
        buffer == BufferStep(coyote, dt)
        dust == EmitDust(buffer, r, dt)
        r1 == RngAt(r, DustDraws * (Len(dust.dust_particles) - Len(s.dust_particles)))
        coins == CollectCoins(dust, r1)
        r2 == RngAt(r1, SparkleDraws * (Len(coins.sparkle_particles)
                                        - Len(s.sparkle_particles)))
        sportals == SpeedPortals(coins)
        gportals == GravityPortals(sportals)
        pads == JumpPads(gportals)
        death == DeathCheck(pads, r2)
        r3 == IF death.alive THEN r2 ELSE RngAt(r2, DeathDraws * DEATH_COUNT)
    IN  [ scrolled |-> scrolled, extended |-> extended, pruned |-> pruned, integrated |-> integrated,
          contacts |-> contacts, coyote |-> coyote, buffer |-> buffer,
          dust |-> dust, coins |-> coins, sportals |-> sportals,
          gportals |-> gportals, pads |-> pads, death |-> death,
          final |-> UpdateShake(UpdateParticles(death, dt), dt),
          rng |-> r3,
          ev |-> [landed |-> contacts.on_ground,
                  jumped |-> BufferFires(coyote),
                  coins |-> Ids(dust.coins) \ Ids(coins.coins),
                  portals |-> Ids(coins.portals) \ Ids(sportals.portals),
                  gportals |-> Ids(sportals.gravity_portals) \ Ids(gportals.gravity_portals),
                  flipped |-> gportals.gravity_dir # sportals.gravity_dir,
                  pads |-> Ids(gportals.jump_pads) \ Ids(pads.jump_pads),
                  died |-> ~death.alive,
                  pruned |-> Entities(extended) \ Entities(pruned)] ]

\* lines 352-353: a tick after the run has ended
DeadTick(s, r, dt) ==
    [final |-> UpdateShake(UpdateParticles(s, dt), dt), rng |-> r, ev |-> NoEvents]

\* GameView.on_update(dt): the object, the generator and what the tick did
\* (final, rng, ev), with the steps of an alive tick
Update(s, r, dt) ==
    IF ~s.alive
    THEN DeadTick(s, r, dt)
    ELSE AliveTick(s, r, dt)

\* ------------------------------------------------------------ history
(* since_ground: the dt of the ticks run since a tick last resolved a      *)
(*   ground or ceiling contact;                                            *)
(* fell: no jump was executed and no pad touched since then;               *)
(* req_age: the dt elapsed since the last jump request made in the air     *)
(*   with the coyote timer at 0 and not yet executed, -1 when there is     *)
(*   none;                                                                 *)
(* picked: the coins picked up;                                            *)
(* pruned: the entities the prune loop removed;                            *)
(* dead_for: the dt of the ticks run since the tick that ended the run;     *)
(* since_jump: a jump was executed and no tick has resolved a ground or    *)
(*   ceiling contact since.                                                *)
NoHistory ==
    [since_ground |-> 0, fell |-> TRUE, req_age |-> -1, picked |-> {}, pruned |-> {},
     dead_for |-> 0, since_jump |-> FALSE]

HistoryAfterTick(h, s, e, dt) ==
    IF ~s.alive THEN [h EXCEPT !.dead_for = @ + dt]
    ELSE [since_ground |-> IF e.landed THEN 0 ELSE h.since_ground + dt,
          fell |-> (e.landed \/ h.fell) /\ ~e.jumped /\ e.pads = {},
          req_age |-> IF e.jumped \/ h.req_age < 0 THEN -1 ELSE h.req_age + dt,
          picked |-> h.picked \cup e.coins,
          pruned |-> h.pruned \cup e.pruned,
          dead_for |-> 0,
          since_jump |-> e.jumped \/ (h.since_jump /\ ~e.landed)]

HistoryAfterJump(h, s) ==
    IF ~s.alive THEN h
    ELSE IF JumpsNow(s) THEN [h EXCEPT !.fell = FALSE, !.req_age = -1, !.since_jump = TRUE]
    ELSE [h EXCEPT !.req_age = 0]

\* the steps recorded for an operation that is not a tick
NoSteps == <<>>

\* ------------------------------------------------------------ actions
\* what a call of on_update(dt) does to the object, the generator and the
\* history
Tick(dt) ==
    LET u == Update(self, rng, dt)
    IN  /\ self' = u.final
        /\ rng' = u.rng
        /\ ev' = u.ev
        /\ hist' = HistoryAfterTick(hist, self, u.ev, dt)
        /\ last' = [op |-> "tick", dt |-> dt, pre |-> self, rng |-> rng,
                    pre_ev |-> ev, pre_hist |-> hist, steps |-> u]

\* the window calls on_update(dt)
on_update(dt) ==
    /\ ~raised
    /\ ticks < MaxTicks
    /\ Tick(dt)
    /\ ticks' = ticks + 1
    /\ UNCHANGED <<level_path, raised, jumps>>

\* the window goes on calling on_update(dt) on an ended run: the ticks in
\* which the death effect plays out, past the tick budget of a run
on_update_dead(dt) ==
    /\ ~raised
    /\ ~self.alive
    /\ ticks = MaxTicks
    /\ hist.dead_for < MaxDeadTime
    /\ Tick(dt)
    /\ UNCHANGED <<level_path, raised, ticks, jumps>>

\* SPACE, UP or a mouse press: _queue_jump
queue_jump ==
    /\ ~raised
    /\ jumps < MaxJumps
    /\ self' = QueueJump(self)
    /\ ev' = [NoEvents EXCEPT !.jumped = self.alive /\ JumpsNow(self)]
    /\ hist' = HistoryAfterJump(hist, self)
    /\ last' = [op |-> "jump", dt |-> 0, pre |-> self, rng |-> rng,
                pre_ev |-> ev, pre_hist |-> hist, steps |-> NoSteps]
    /\ jumps' = jumps + 1
    /\ UNCHANGED <<level_path, raised, rng, ticks>>

\* R: setup, the restart
setup ==
    /\ ~raised
    /\ \E file \in Disk(level_path) :
          LET res == load_level(file)
          IN  IF SetupRaises(res)
              THEN /\ raised' = TRUE
                   /\ self' = SetupRaised(self, res)
                   /\ last' = [op |-> "setup raised", dt |-> 0, pre |-> self, rng |-> rng,
                               pre_ev |-> ev, pre_hist |-> hist, steps |-> NoSteps]
                   /\ UNCHANGED <<ev, hist, ticks, jumps>>
              ELSE /\ raised' = FALSE
                   /\ self' = Setup(self, res.data)
                   /\ ev' = NoEvents
                   /\ hist' = NoHistory
                   /\ last' = [op |-> "setup", dt |-> 0, pre |-> self, rng |-> rng,
                               pre_ev |-> ev, pre_hist |-> hist, steps |-> NoSteps]
                   /\ ticks' = 0
                   /\ jumps' = 0
    /\ UNCHANGED <<level_path, rng>>

\* GameView(level_path): the constructor ends with setup()
Init ==
    /\ level_path \in 1..Len(Levels)
    /\ ~SetupRaises(load_level(level_path))
    /\ raised = FALSE
    /\ self = Setup(Constructed, load_level(level_path).data)
    /\ rng \in 0..(RngMod - 1)
    /\ ev = NoEvents
    /\ hist = NoHistory
    /\ last = [op |-> "init", dt |-> 0, pre |-> Constructed, rng |-> rng,
               pre_ev |-> NoEvents, pre_hist |-> NoHistory, steps |-> NoSteps]
    /\ ticks = 0
    /\ jumps = 0

Next ==
    \/ \E dt \in DTs : on_update(dt)
    \/ queue_jump
    \/ setup

Spec == Init /\ [][Next]_vars

(* The death effect followed to its end: the levels of PlayOutLevels, whose   *)
(* run ends within the tick budget, with the ticks of the ended run going on  *)
(* until MaxDeadTime has elapsed, at a steady frame length.                    *)
PlayOutLevels == {3}
PlayOutDTs == {40}

PlayOutInit == Init /\ level_path \in PlayOutLevels

PlayOutNext ==
    \/ Next
    \/ \E dt \in PlayOutDTs : on_update_dead(dt)

PlayOut == PlayOutInit /\ [][PlayOutNext]_vars

\* ------------------------------------------------------------ claims
IsTick == last.op = "tick"
IsJump == last.op = "jump"
IsSetup == last.op = "setup"
\* the last operation was a tick of a living run, and its steps
WasAliveTick == IsTick /\ last.pre.alive
Steps == last.steps

\* C1. Death is one-way: a run that has ended stays ended under every tick
\* and every jump request; only a restart (setup) makes alive true again.
C1_DeathIsOneWay ==
    /\ (IsTick \/ IsJump) /\ ~last.pre.alive => ~self.alive
    /\ ~last.pre.alive /\ self.alive => IsSetup

\* a jump request on a run that ended at least one operation before
C1_Witness == IsJump /\ ~last.pre.alive /\ ~last.pre_ev.died /\ ~self.alive

\* C2. The run ends exactly on the alive tick whose death check finds the
\* player on an obstacle or its center_y below -200 or above HEIGHT + 200;
\* that tick alone emits the 40 death particles and arms the shake (0.35 s,
\* intensity 6).  So an alive run has no death particle and no shake, and
\* there are never more than 40 death particles.
C2_DeathFiresOnce ==
    /\ WasAliveTick =>
          LET p == Steps.pads
              fatal == \/ \E i \in 1..Len(p.obstacles) : Collides(p.player, p.obstacles[i])
                       \/ p.player.center_y < Px(-200)
                       \/ p.player.center_y > Px(HEIGHT + 200)
          IN  /\ self.alive = ~fatal
              /\ ev.died = fatal
              /\ fatal => /\ Len(Steps.death.death_particles) = 40
                          /\ Steps.death.shake_time = 350
                          /\ Steps.death.shake_intensity = 6
                          /\ self.shake_time = Max(0, 350 - last.dt)
    /\ IsTick /\ ~last.pre.alive =>
          /\ Len(self.death_particles) <= Len(last.pre.death_particles)
          /\ self.shake_time <= last.pre.shake_time
          /\ self.shake_intensity = last.pre.shake_intensity
    /\ self.alive => self.death_particles = <<>> /\ self.shake_time = 0
    /\ Len(self.death_particles) <= 40

\* a tick on a run that ended by leaving the vertical bounds: the one burst
\* is still there and the shake is decaying
C2_Witness ==
    /\ IsTick /\ ~last.pre.alive
    /\ last.pre.player.center_y < Px(-200)
    /\ Len(self.death_particles) = 40
    /\ self.shake_time > 0 /\ self.shake_time < last.pre.shake_time

\* the fields a tick of an ended run may change
ParticleFields == {"dust_particles", "sparkle_particles", "death_particles", "shake_time"}

\* C3. While dead the gameplay state is frozen: a tick changes only the
\* particle pools and shake_time, a jump request changes nothing.
C3_DeadIsFrozen ==
    /\ IsTick /\ ~last.pre.alive =>
          \A f \in DOMAIN self \ ParticleFields : self[f] = last.pre[f]
    /\ IsJump /\ ~last.pre.alive => self = last.pre

\* a jump request on an ended run that ticks of the ended run have already
\* moved on (the shake has decayed past the tick of death)
C3_Witness ==
    /\ IsJump /\ ~last.pre.alive /\ self = last.pre
    /\ last.pre.death_particles # <<>>
    /\ last.pre.shake_time > 0 /\ last.pre.shake_time < 350 - 40

\* C4. Restart determinism: whatever the state before it, setup leaves the
\* object exactly as the constructor left it for the same level: player at
\* the start position with vel_y 0, gravity_dir +1, on the ground, timers 0,
\* score 0, time_alive 0, alive, the level's initial scroll speed, the
\* entities of the level plan, no particle and no shake.
C4_RestartDeterminism ==
    IsSetup =>
        LET data == load_level(level_path).data
        IN  /\ self = Setup(Constructed, data)
            /\ self.vel_y = 0 /\ self.gravity_dir = 1 /\ self.on_ground
            /\ self.coyote_timer = 0 /\ self.jump_buffer_timer = 0
            /\ self.score = 0 /\ self.time_alive = 0 /\ self.alive
            /\ self.scroll_speed = Get(data, "scroll_speed", DEFAULT_SCROLL_SPEED)
            /\ Len(self.obstacles) = Len(data.obstacles)
            /\ Len(self.coins) = Len(Get(data, "coins", <<>>))
            /\ Len(self.portals) = Len(Get(data, "speed_portals", <<>>))
            /\ Len(self.gravity_portals) = Len(Get(data, "gravity_portals", <<>>))
            /\ Len(self.jump_pads) = Len(Get(data, "jump_pads", <<>>))
            /\ self.dust_particles = <<>> /\ self.sparkle_particles = <<>>
            /\ self.death_particles = <<>> /\ self.shake_time = 0

\* a restart of an ended run with a coin scored, the burst live and the
\* shake active
C4_Witness ==
    /\ IsSetup /\ ~last.pre.alive /\ last.pre.score > 0
    /\ last.pre.death_particles # <<>> /\ last.pre.shake_time > 0
    /\ Len(last.pre.coins) < Len(self.coins)

\* C5 as stated, the bound included: an alive player in the air that left
\* the ground without a jump or a pad, and a jump request at most COYOTE_TIME
\* after the last grounded tick: the jump is executed at once.
C5_CoyoteBoundIncluded ==
    /\ IsJump /\ last.pre.alive /\ ~last.pre.on_ground
    /\ last.pre_hist.fell /\ last.pre_hist.since_ground <= 80
    => ev.jumped /\ self.vel_y = JUMP_VEL * self.gravity_dir

\* C5, amended. The same with the bound excluded: the request is executed at
\* once, with vel_y = JUMP_VEL * gravity_dir, when less than COYOTE_TIME has
\* elapsed since the last grounded tick.
C5_CoyoteJump ==
    /\ IsJump /\ last.pre.alive /\ ~last.pre.on_ground
    /\ last.pre_hist.fell /\ last.pre_hist.since_ground < 80
    => /\ ev.jumped
       /\ self.vel_y = JUMP_VEL * self.gravity_dir
       /\ ~self.on_ground /\ self.coyote_timer = 0 /\ self.jump_buffer_timer = 0

\* a request executed in the air, two ticks or more after the ground was left
C5_Witness ==
    /\ IsJump /\ last.pre.alive /\ ~last.pre.on_ground
    /\ last.pre_hist.fell /\ last.pre_hist.since_ground >= 40
    /\ ev.jumped /\ self.vel_y = JUMP_VEL * self.gravity_dir

\* C6. A jump request made in the air (alive, not grounded, coyote timer 0)
\* is executed by the tick that lands the player, with
\* vel_y = JUMP_VEL * gravity_dir, when the dt elapsed from the request up to
\* and including that tick is at most JUMP_BUFFER, however it splits in ticks.
C6_BufferedJump ==
    /\ WasAliveTick /\ ev.landed
    /\ last.pre_hist.req_age >= 0 /\ last.pre_hist.req_age + last.dt <= 100
    => /\ ev.jumped
       /\ Steps.buffer.vel_y = JUMP_VEL * Steps.buffer.gravity_dir
       /\ ~Steps.buffer.on_ground
       /\ (ev.gportals = {} /\ ev.pads = {} =>
              self.vel_y = JUMP_VEL * self.gravity_dir /\ ~self.on_ground)

\* a request executed on landing at the end of the window: the landing tick
\* is the third one after it and 100 ms have elapsed
C6_Witness ==
    /\ WasAliveTick /\ ev.landed /\ ev.jumped
    /\ last.pre_hist.req_age + last.dt = 100 /\ last.dt = 40
    /\ last.pre.jump_buffer_timer = 40

\* C7. Landing: with gravity_dir = +1, a player that after integration
\* overlaps the ground collider with vel_y <= 0 leaves the contact step with
\* vel_y = 0, on_ground true and its bottom edge on the collider's top edge;
\* with gravity_dir = -1 the same against the ceiling collider (vel_y >= 0,
\* top edge on the collider's bottom edge).  Without overlap, or with the
\* velocity of the other sign, on_ground is false and neither position nor
\* velocity is touched.
C7_Landing ==
    WasAliveTick =>
        LET i == Steps.integrated
            c == Steps.contacts
            down == i.gravity_dir = 1 /\ Collides(i.player, i.ground) /\ i.vel_y <= 0
            up == i.gravity_dir = -1 /\ Collides(i.player, i.ceiling) /\ i.vel_y >= 0
        IN  /\ down => /\ c.vel_y = 0 /\ c.on_ground
                       /\ Bottom(c.player) = Top(i.ground)
                       /\ c.player.center_x = i.player.center_x
            /\ up => /\ c.vel_y = 0 /\ c.on_ground
                     /\ Top(c.player) = Bottom(i.ceiling)
                     /\ c.player.center_x = i.player.center_x
            /\ ~down /\ ~up => /\ ~c.on_ground
                               /\ c.player = i.player /\ c.vel_y = i.vel_y
            /\ ev.landed = (down \/ up)

\* a landing on the ceiling, from the air, that moved the player
C7_Witness ==
    /\ WasAliveTick /\ ev.landed
    /\ last.pre.gravity_dir = -1 /\ ~last.pre.on_ground
    /\ Steps.integrated.vel_y > 0
    /\ Top(Steps.integrated.player) > Bottom(Steps.integrated.ceiling)
    /\ Top(Steps.contacts.player) = Bottom(Steps.contacts.ceiling)

\* C8. Coins: an alive tick removes every coin the player overlaps and adds
\* exactly 10 to score for each; a coin picked up is gone for the rest of the
\* run and is never scored again; score is always 10 times the number of
\* coins picked up since the last setup, so a pruned coin adds nothing.
C8_CoinPickup ==
    /\ self.score = 10 * Cardinality(hist.picked)
    /\ hist.picked \cap Ids(self.coins) = {}
    /\ WasAliveTick =>
          LET d == Steps.dust
              hit == {i \in 1..Len(d.coins) : Collides(d.player, d.coins[i])}
          IN  /\ ev.coins = {d.coins[i].id : i \in hit}
              /\ ev.coins \cap last.pre_hist.picked = {}
              /\ Steps.coins.score = d.score + 10 * Cardinality(hit)
              /\ self.score = last.pre.score + 10 * Cardinality(hit)
              /\ Ids(self.coins) = Ids(d.coins) \ ev.coins
              /\ Len(self.coins) = Len(d.coins) - Cardinality(hit)

\* a tick that picked one coin up and pruned another: 10 points
C8_Witness ==
    /\ WasAliveTick /\ Cardinality(ev.coins) = 1
    /\ Len(last.pre.coins) = 2 /\ self.coins = <<>>
    /\ self.score = 10

\* C9. Gravity portals: a portal whose direction differs from gravity_dir
\* sets gravity_dir to its direction and vel_y to 0, one whose direction is
\* the current one changes neither, and both are removed.  (Portals hit in
\* the same tick are taken in turn: the last one's direction stands, and
\* vel_y is zeroed unless none differed.)  The integration of every tick adds
\* -GRAVITY * gravity_dir * dt to vel_y, with the sign the portal left.
C9_GravityPortal ==
    WasAliveTick =>
        LET b == Steps.sportals
            a == Steps.gportals
            hits == CheckForCollisionWithList(b.player, b.gravity_portals)
            same == \A i \in 1..Len(hits) : hits[i].prop = b.gravity_dir
        IN  /\ ev.gportals = Ids(hits)
            /\ Ids(a.gravity_portals) = Ids(b.gravity_portals) \ Ids(hits)
            /\ Ids(self.gravity_portals) \cap Ids(hits) = {}
            /\ hits # <<>> /\ ~same =>
                  a.gravity_dir = hits[Len(hits)].prop /\ a.vel_y = 0
            /\ Len(hits) = 1 /\ ~same => a.gravity_dir = -b.gravity_dir
            /\ same => a.gravity_dir = b.gravity_dir /\ a.vel_y = b.vel_y
            /\ a.gravity_dir \in {1, -1}
            /\ Steps.integrated.vel_y * 1000 =
                  last.pre.vel_y * 1000 - GRAVITY * last.pre.gravity_dir * last.dt

\* the tick right after a portal turned gravity upside down: vel_y grows
C9_Witness ==
    /\ WasAliveTick /\ last.pre_ev.flipped
    /\ last.pre.gravity_dir = -1 /\ last.pre.vel_y = 0
    /\ Steps.integrated.vel_y > 0

\* C10. Jump pads: a pad's strength is the level value, at least 0.2; after
\* the pads of a tick, vel_y * gravity_dir is the larger of its value before
\* them and JUMP_VEL times the (largest) strength touched, so a pad never
\* slows the player down in the jump direction.
C10_JumpPadVelocity ==
    /\ \A i \in 1..Len(self.jump_pads) :
          LET pad == self.jump_pads[i]
              given == self.jump_pad_plan[pad.id][2]
          IN  pad.prop = (IF given < 2 THEN 2 ELSE given)
    /\ WasAliveTick =>
          LET b == Steps.gportals
              a == Steps.pads
              hits == CheckForCollisionWithList(b.player, b.jump_pads)
              g == b.gravity_dir
              reach == {b.vel_y * g * 10} \cup
                       {JUMP_VEL * hits[i].prop : i \in 1..Len(hits)}
          IN  /\ ev.pads = Ids(hits)
              /\ a.gravity_dir = g
              /\ a.vel_y * g * 10 \in reach
              /\ \A v \in reach : a.vel_y * g * 10 >= v
              /\ hits = <<>> => a.vel_y = b.vel_y

\* a tick over two pads, of strength 2.0 and of a strength raised to 0.2: the
\* stronger one stands; and a tick over a pad weaker than the jump under way
C10_Witness ==
    /\ WasAliveTick /\ Cardinality(ev.pads) = 2
    /\ Steps.gportals.vel_y = 0 /\ Steps.pads.vel_y = 2 * JUMP_VEL
    /\ \E i \in 1..Len(Steps.gportals.jump_pads) : Steps.gportals.jump_pads[i].prop = 2
    /\ self.vel_y = 2 * JUMP_VEL

\* C11. Pruning: after every tick of a living run no obstacle, spike, coin,
\* speed portal, gravity portal or jump pad with its right edge below -200 is
\* left in its collection; what the prune loop removed is in no collection
\* in any later state of the run; and the loop removes nothing whose right
\* edge is at -200 or beyond, so nothing that still reaches into [0, WIDTH].
C11_Pruning ==
    /\ hist.pruned \cap Entities(self) = {}
    /\ WasAliveTick =>
          /\ \A c \in Collections : \A i \in 1..Len(self[c]) :
                Right(self[c][i]) >= Px(-200)
          /\ \A c \in Collections :
                LET before == Steps.extended[c]
                    after == Steps.pruned[c]
                IN  /\ \A i \in 1..Len(before) :
                          Right(before[i]) >= Px(-200) =>
                              \E j \in 1..Len(after) : after[j] = before[i]
                    /\ \A i \in 1..Len(before) :
                          Right(before[i]) > 0 /\ Left(before[i]) < Px(WIDTH) =>
                              <<c, before[i].id>> \notin ev.pruned
                    /\ \A i \in 1..Len(before) :
                          Right(before[i]) < Px(-200) =>
                              /\ <<c, before[i].id>> \in ev.pruned
                              /\ <<c, before[i].id>> \notin Entities(self)
          /\ ev.pruned \subseteq hist.pruned

\* a tick that pruned a sprite and kept one that is off screen by less than 200
C11_Witness ==
    /\ WasAliveTick /\ ev.pruned # {}
    /\ \E c \in Collections : \E i \in 1..Len(self[c]) :
          Right(self[c][i]) < 0 /\ Right(self[c][i]) >= Px(-200)
    /\ \E e \in last.pre_hist.pruned : e \notin ev.pruned

\* the state is the one a setup (the constructor's or a restart's) left
IsFresh == last.op \in {"init", "setup"}

\* C12. Obstacle placement: setup creates one obstacle per entry of the
\* obstacle plan, in plan order; the first has its left edge at SPAWN_START
\* and each next one starts one gap (the gap of the entry before it) further
\* right; an obstacle's centre is its left edge plus half its width, its
\* height is 36 and its bottom edge is at floor_y; a bare-number entry gets
\* the level's default width.  The plan [(240,30),(300,30)] gives the
\* centres 1055 and 1295.
C12_ObstaclePlacement ==
    IsFresh =>
        LET data == load_level(level_path).data
            plan == self.obstacle_plan
            obs == self.obstacles
            floor_y == IF "floor_y" \in DOMAIN data THEN data.floor_y \div 1000 ELSE 120
            default_w == IF "default_obstacle_width" \in DOMAIN data
                         THEN data.default_obstacle_width \div 1000 ELSE 30
        IN  /\ Len(obs) = Len(plan)
            /\ Len(plan) = Len(data.obstacles)
            /\ \A k \in 1..Len(obs) :
                  /\ obs[k].id = k
                  /\ obs[k].width = 1000 * plan[k][2]
                  /\ obs[k].height = 36000
                  /\ 2 * obs[k].center_x = 2 * Left(obs[k]) + 1000 * plan[k][2]
                  /\ Bottom(obs[k]) = 1000 * floor_y
                  /\ "num" \in DOMAIN data.obstacles[k] =>
                        /\ plan[k][1] = data.obstacles[k].num \div 1000
                        /\ plan[k][2] = default_w
            /\ obs # <<>> => Left(obs[1]) = 1000 * 1040
            /\ \A k \in 1..(Len(obs) - 1) :
                  Left(obs[k + 1]) = Left(obs[k]) + 1000 * plan[k][1]
            /\ plan = << <<240, 30>>, <<300, 30>> >> =>
                  obs[1].center_x = 1055000 /\ obs[2].center_x = 1295000

\* a restart of a level of three obstacles, one of them a bare number with
\* the level's own default width, after a run that moved the obstacles
C12_Witness ==
    /\ IsSetup /\ Len(self.obstacles) = 3
    /\ last.pre.obstacles # self.obstacles
    /\ self.obstacle_plan = << <<300, 40>>, <<240, 40>>, <<240, 36>> >>
    /\ self.obstacles[3].center_x = 1000 * (1040 + 300 + 240 + 18)

\* C13. Level validation error: when the level file has no obstacles list
\* or an obstacle entry that cannot be read, setup raises before any entity
\* is built and before any run state is modified: the object after a failed
\* restart is the object before it.
C13_FailedSetupChangesNothing ==
    last.op = "setup raised" => raised /\ self = last.pre

\* C14. Jump request: in a living run a jump request made with on_ground
\* true or coyote_timer > 0 is executed at once: vel_y = JUMP_VEL *
\* gravity_dir, on_ground false, both timers 0; any other request only sets
\* jump_buffer_timer to JUMP_BUFFER.  Nothing else of the object changes in
\* either case: score, scroll_speed, gravity_dir, positions, collections.
C14_JumpRequest ==
    IsJump /\ last.pre.alive =>
        LET p == last.pre
            others == DOMAIN self \ {"vel_y", "on_ground", "coyote_timer", "jump_buffer_timer"}
        IN  /\ \A f \in others : self[f] = p[f]
            /\ ev.jumped = (p.on_ground \/ p.coyote_timer > 0)
            /\ (p.on_ground \/ p.coyote_timer > 0) =>
                  /\ self.vel_y = 820 * p.gravity_dir
                  /\ ~self.on_ground
                  /\ self.coyote_timer = 0
                  /\ self.jump_buffer_timer = 0
            /\ ~(p.on_ground \/ p.coyote_timer > 0) =>
                  /\ self.jump_buffer_timer = 100
                  /\ self.vel_y = p.vel_y
                  /\ self.on_ground = p.on_ground
                  /\ self.coyote_timer = p.coyote_timer

\* a request made in the air, moving, with the coyote time used up: it is
\* only buffered
C14_Witness ==
    /\ IsJump /\ last.pre.alive /\ ~ev.jumped
    /\ ~last.pre.on_ground /\ last.pre.coyote_timer = 0 /\ last.pre.vel_y # 0
    /\ last.pre.jump_buffer_timer < 100
    /\ self.jump_buffer_timer = 100 /\ self.vel_y = last.pre.vel_y

\* C15. Overlap effects come in the order coins, speed portals, gravity
\* portals, jump pads, death check, all in one tick: a tick in which the
\* player overlaps a coin and an obstacle scores the coin (+10, coin removed)
\* and ends the run; a tick in which the player overlaps a gravity portal
\* that flips the direction and a jump pad gives the pad's velocity in the
\* direction after the flip; the death check removes no obstacle.
C15_OverlapOrder ==
    WasAliveTick =>
        LET b == Steps.dust
            coinhit == {i \in 1..Len(b.coins) : Collides(b.player, b.coins[i])}
            obhit == {i \in 1..Len(b.obstacles) : Collides(b.player, b.obstacles[i])}
            g == Steps.gportals
            padhit == {i \in 1..Len(g.jump_pads) : Collides(g.player, g.jump_pads[i])}
        IN  /\ Steps.pads.player = b.player
            /\ coinhit # {} /\ obhit # {} =>
                  /\ self.score = last.pre.score + 10 * Cardinality(coinhit)
                  /\ \A i \in coinhit : b.coins[i].id \notin Ids(self.coins)
                  /\ ~self.alive /\ ev.died
            /\ ev.flipped /\ padhit # {} =>
                  /\ self.gravity_dir = -last.pre.gravity_dir
                  /\ \E i \in padhit :
                        10 * self.vel_y = 820 * self.gravity_dir * g.jump_pads[i].prop
                  /\ \A i \in padhit :
                        10 * self.vel_y * self.gravity_dir >= 820 * g.jump_pads[i].prop
            /\ self.obstacles = Steps.pruned.obstacles
            /\ obhit # {} => \A i \in obhit : b.obstacles[i].id \in Ids(self.obstacles)

\* the tick that scored a coin lying inside the obstacle that ended the run
C15_Witness ==
    /\ WasAliveTick /\ ev.coins # {} /\ ev.died
    /\ self.score = last.pre.score + 10
    /\ CheckForCollisionWithList(self.player, self.obstacles) # <<>>
    /\ Len(self.coins) < Len(last.pre.coins)

\* C16. Gravity portal default: a gravity portal whose level entry gives no
\* direction flips the gravity direction whatever it is when the player
\* touches it, +1 to -1 and -1 to +1, and sets vel_y to 0.
C16_DefaultFlips ==
    WasAliveTick =>
        LET b == Steps.sportals
            hits == CheckForCollisionWithList(b.player, b.gravity_portals)
            entries == load_level(level_path).data.gravity_portals
        IN  Len(hits) = 1 /\ "dir" \notin DOMAIN entries[hits[1].id] =>
                /\ Steps.gportals.gravity_dir = -b.gravity_dir
                /\ Steps.gportals.vel_y = 0
                /\ hits[1].id \notin Ids(self.gravity_portals)

\* C17. Spike count: setup puts ceil(w / u) spikes on an obstacle of width
\* w, u the width of a spike; they are evenly spaced across the obstacle
\* (the i-th centred at left + (i - 1/2) * w / count) and their bottom edge
\* is the obstacle's top edge.
C17_SpikeCountIsCeiling ==
    IsFresh =>
        \A k \in 1..Len(self.obstacles) :
            LET ob == self.obstacles[k]
                mine == {i \in 1..Len(self.spikes) : self.spikes[i].id[1] = ob.id}
                u == self.spikes[1].width
                count == Cardinality(mine)
            IN  /\ count = (ob.width + u - 1) \div u
                /\ \A i \in mine :
                      /\ Bottom(self.spikes[i]) = Top(ob)
                      /\ 2 * count * (self.spikes[i].center_x - Left(ob))
                            \in ((2 * self.spikes[i].id[2] - 1) * ob.width - 2 * count + 1)
                                ..((2 * self.spikes[i].id[2] - 1) * ob.width)

\* C18. Speed portal: a tick in which the player overlaps a speed portal
\* sets scroll_speed to the portal's value and removes the portal, which no
\* later tick of the run holds again; the world scroll of every tick moves
\* the world by the speed the tick began with, so the new speed first
\* applies on the next tick.  A tick without such an overlap, a tick of an
\* ended run and a jump request leave scroll_speed unchanged; a restart sets
\* it to the level's value.
C18_SpeedPortal ==
    /\ WasAliveTick =>
          LET b == Steps.coins
              hits == {i \in 1..Len(b.portals) : Collides(b.player, b.portals[i])}
              dx == last.pre.scroll_speed * last.dt
          IN  /\ hits = {} => self.scroll_speed = last.pre.scroll_speed
              /\ hits # {} => \E i \in hits : self.scroll_speed = b.portals[i].prop
              /\ Cardinality(hits) = 1 =>
                    \A i \in hits : self.scroll_speed = b.portals[i].prop
              /\ \A i \in hits : b.portals[i].id \notin Ids(self.portals)
              /\ ev.portals = {b.portals[i].id : i \in hits}
              /\ Ids(self.portals) \subseteq Ids(last.pre.portals)
              /\ Steps.scrolled.ground.center_x = last.pre.ground.center_x - dx
              /\ \A c \in Collections : \A i \in 1..Len(last.pre[c]) :
                    Steps.scrolled[c][i].center_x = last.pre[c][i].center_x - dx
    /\ (IsTick /\ ~last.pre.alive) \/ IsJump =>
          self.scroll_speed = last.pre.scroll_speed /\ self.portals = last.pre.portals
    /\ IsSetup =>
          LET data == load_level(level_path).data
          IN  self.scroll_speed =
                 (IF "scroll_speed" \in DOMAIN data THEN data.scroll_speed ELSE 360)

\* the tick after a speed portal: the world moves by the portal's speed
C18_Witness ==
    /\ WasAliveTick /\ last.pre_ev.portals # {}
    /\ last.pre.scroll_speed = 5000
    /\ last.pre.scroll_speed # load_level(level_path).data.scroll_speed
    /\ Steps.scrolled.ground.center_x = last.pre.ground.center_x - 5000 * last.dt
    /\ last.pre.portals = <<>>

\* C19. Jump pad side effects: every pad the player overlaps is removed and
\* leaves on_ground false and coyote_timer 0, also when it is too weak to
\* change vel_y; it does not touch jump_buffer_timer.  So a jump request made
\* right after a tick that touched a pad is never executed at once: it is
\* buffered.
C19_PadSideEffects ==
    /\ WasAliveTick =>
          LET b == Steps.gportals
              hits == {i \in 1..Len(b.jump_pads) : Collides(b.player, b.jump_pads[i])}
          IN  hits # {} =>
                /\ ~self.on_ground /\ self.coyote_timer = 0
                /\ \A i \in hits : b.jump_pads[i].id \notin Ids(self.jump_pads)
                /\ Len(self.jump_pads) = Len(b.jump_pads) - Cardinality(hits)
                /\ self.jump_buffer_timer = b.jump_buffer_timer
                /\ Steps.pads.jump_buffer_timer = Steps.buffer.jump_buffer_timer
    /\ IsJump /\ last.pre_ev.pads # {} =>
          /\ ~ev.jumped
          /\ self.vel_y = last.pre.vel_y
          /\ last.pre.alive => self.jump_buffer_timer = 100

\* a request right after a tick in which the player landed and touched a
\* weak pad: the pad took the ground and the coyote time the landing gave
C19_Witness ==
    /\ IsJump /\ last.pre.alive /\ last.pre_ev.pads # {} /\ last.pre_ev.landed
    /\ 0 < last.pre.vel_y /\ last.pre.vel_y < 820
    /\ ~ev.jumped /\ self.jump_buffer_timer = 100

\* C20. Effectively-infinite ground: in every level and after every tick of
\* a living run the ground collider and the ceiling collider span the
\* player's horizontal extent, each tick widening them by WIDTH about their
\* centre when the ground's right edge has fallen below 2 * WIDTH; so with
\* gravity_dir = +1 a player that comes down to floor level always finds the
\* ground there and lands.
C20_GroundSpansPlayer ==
    /\ self.alive =>
          /\ Left(self.ground) <= Left(self.player)
          /\ Right(self.ground) >= Right(self.player)
          /\ Left(self.ceiling) <= Left(self.player)
          /\ Right(self.ceiling) >= Right(self.player)
    /\ WasAliveTick =>
          LET b == Steps.scrolled
              a == Steps.extended
              i == Steps.integrated
              short == Right(b.ground) < 1000 * 2 * 960
          IN  /\ /\ i.gravity_dir = 1 /\ i.vel_y <= 0
                 /\ Bottom(i.player) < Top(i.ground) /\ Bottom(i.ground) < Top(i.player)
                 => ev.landed /\ Bottom(Steps.contacts.player) = Top(i.ground)
              /\ a.ground.center_x = b.ground.center_x
              /\ a.ceiling.center_x = b.ceiling.center_x
              /\ a.ground.width = b.ground.width + (IF short THEN 960000 ELSE 0)
              /\ a.ceiling.width = b.ceiling.width + (IF short THEN 960000 ELSE 0)
              /\ self.ground = a.ground /\ self.ceiling = a.ceiling

\* the particle pools and the gravity _update_particles gives each
Pools == {"dust_particles", "sparkle_particles", "death_particles"}
PoolGravity ==
    [dust_particles |-> -400, sparkle_particles |-> 0, death_particles |-> -300]

\* the object a tick hands to _update_particles
BeforeParticles == IF last.pre.alive THEN Steps.death ELSE last.pre

\* C21. Particle expiry: every tick, of a living or an ended run, updates
\* every particle of the three pools: life loses dt, vy gains poolGravity *
\* dt (dust -400, sparkle 0, death -300), x and y move by the velocity times
\* dt; a particle whose life is then 0 or less is removed in the same update
\* and the others stay, in order.  So every particle of every pool has
\* 0 < life <= start_life.
C21_ParticleExpiry ==
    /\ \A pool \in Pools : \A i \in 1..Len(self[pool]) :
          /\ self[pool][i].life > 0
          /\ self[pool][i].life <= self[pool][i].start_life
    /\ IsTick =>
          \A pool \in Pools :
              LET before == BeforeParticles[pool]
                  after == self[pool]
                  dt == last.dt
                  g == PoolGravity[pool]
                  kept == {i \in 1..Len(before) : before[i].life - dt > 0}
                  rank(i) == Cardinality({j \in kept : j <= i})
              IN  /\ Len(after) = Cardinality(kept)
                  /\ \A i \in kept :
                        LET a == after[rank(i)]
                            b == before[i]
                        IN  /\ a.life = b.life - dt
                            /\ 1000 * a.vy = 1000 * b.vy + g * dt
                            /\ a.vx = b.vx
                            /\ a.x = b.x + b.vx * dt
                            /\ a.y = b.y + a.vy * dt
                            /\ a.start_life = b.start_life

\* a tick that removed the death particles whose life had just reached 0
\* and kept the others, moved
C21_Witness ==
    /\ IsTick
    /\ \E i \in 1..Len(last.pre.death_particles) :
          last.pre.death_particles[i].life = last.dt
    /\ self.death_particles # <<>>
    /\ Len(self.death_particles) < Len(last.pre.death_particles)
    /\ self.death_particles[1].y # last.pre.death_particles[1].y

\* the death effect is over: no particle is left and the shake has stopped
PlayedOut ==
    /\ self.shake_time = 0
    /\ \A pool \in Pools : self[pool] = <<>>

\* C22. The death effect plays out: on an ended run every tick (dt > 0)
\* takes dt off shake_time, down to 0 and never below, and adds no particle
\* to any pool; when the ticks of the ended run add up to 0.35 s the shake
\* has stopped, when they add up to 1.0 s the three pools are empty; a shake
\* that has stopped and a pool that is empty stay so under every further
\* tick and jump request, until a restart.
C22_DeathEffectPlaysOut ==
    /\ self.shake_time >= 0
    /\ IsTick /\ ~last.pre.alive =>
          /\ last.dt > 0
          /\ self.shake_time <= last.pre.shake_time
          /\ last.pre.shake_time > 0 => self.shake_time < last.pre.shake_time
          /\ last.pre.shake_time >= last.dt =>
                self.shake_time = last.pre.shake_time - last.dt
          /\ last.pre.shake_time <= last.dt => self.shake_time = 0
          /\ \A pool \in Pools :
                /\ Len(self[pool]) <= Len(last.pre[pool])
                /\ last.pre[pool] = <<>> => self[pool] = <<>>
    /\ IsJump /\ ~last.pre.alive =>
          /\ self.shake_time = last.pre.shake_time
          /\ \A pool \in Pools : self[pool] = last.pre[pool]
    /\ ~self.alive /\ hist.dead_for >= 350 => self.shake_time = 0
    /\ ~self.alive /\ hist.dead_for >= 1000 => PlayedOut

\* an ended run a second after its end, at rest: the last tick found no
\* particle and no shake and left none; earlier the run had all three pools
\* filled
C22_Witness ==
    /\ IsTick /\ ~self.alive /\ hist.dead_for >= 1000
    /\ PlayedOut
    /\ \A pool \in Pools : last.pre[pool] = <<>>
    /\ last.pre.shake_time = 0
    /\ self.score > 0

\* C23. Dust emission: a tick emits dust only when the player is grounded
\* at the dust step (after the jump buffer), in bursts of 2 particles, one
\* burst per 0.04 s of time spent grounded; time spent in the air gives no
\* dust, so a grounded tick of length dt emits at most
\* 2 * (floor(dt / 0.04) + 1) particles, also when it is the tick of a landing.
C23_DustForGroundedTime ==
    WasAliveTick =>
        LET b == Steps.buffer
            emitted == Len(Steps.dust.dust_particles) - Len(b.dust_particles)
        IN  /\ ~b.on_ground => emitted = 0
            /\ emitted % 2 = 0
            /\ emitted <= 2 * (last.dt \div 40 + 1)

\* C24. No double jump: once a jump has been executed, by a request or from
\* the buffer, no other jump is executed before a tick's ground / ceiling
\* resolution has set on_ground again: a request made in between is only
\* buffered (jump_buffer_timer = JUMP_BUFFER, vel_y untouched), a tick that
\* does not land executes none and takes dt off a running buffer, and a
\* request whose buffer has run out (0.1 s without a landing) is dropped: a
\* tick that finds jump_buffer_timer at 0 or below executes no jump.
C24_NoDoubleJump ==
    /\ hist.since_jump => ~self.on_ground /\ self.coyote_timer = 0
    /\ IsJump /\ last.pre.alive /\ last.pre_hist.since_jump =>
          /\ ~ev.jumped
          /\ self.vel_y = last.pre.vel_y
          /\ self.jump_buffer_timer = 100
    /\ WasAliveTick /\ last.pre_hist.since_jump /\ ~ev.landed =>
          /\ ~ev.jumped
          /\ last.pre.jump_buffer_timer > 0 =>
                Steps.buffer.jump_buffer_timer = last.pre.jump_buffer_timer - last.dt
    /\ WasAliveTick /\ last.pre.jump_buffer_timer <= 0 => ~ev.jumped
    /\ self.alive /\ hist.since_jump /\ hist.req_age >= 100 =>
          self.jump_buffer_timer <= 0

\* a second request made right after a jump, buffered, and dropped by the
\* tick that used the buffer up with the player still in the air
C24_Witness ==
    /\ WasAliveTick /\ last.pre_hist.since_jump /\ hist.since_jump
    /\ last.pre_hist.req_age >= 0 /\ hist.req_age >= 100
    /\ last.pre.jump_buffer_timer > 0 /\ self.jump_buffer_timer <= 0
    /\ ~ev.jumped /\ ~self.on_ground

\* C25. Grounded-flag consistency: in every state between two operations,
\* on_ground implies vel_y = 0 and the player resting on the surface it
\* falls towards under the current gravity_dir: its bottom edge on the
\* ground's top edge when gravity_dir = +1, its top edge on the ceiling's
\* bottom edge when gravity_dir = -1; so a jump request executed with
\* on_ground true starts in contact with that surface and moves away from it.
C25_GroundedConsistency ==
    /\ self.on_ground =>
          /\ self.vel_y = 0
          /\ self.gravity_dir = 1 => Bottom(self.player) = Top(self.ground)
          /\ self.gravity_dir = -1 => Top(self.player) = Bottom(self.ceiling)
    /\ IsJump /\ last.pre.alive /\ last.pre.on_ground =>
          /\ self.gravity_dir = 1 =>
                Bottom(self.player) = Top(self.ground) /\ self.vel_y > 0
          /\ self.gravity_dir = -1 =>
                Top(self.player) = Bottom(self.ceiling) /\ self.vel_y < 0

\* what the overlap loops of the last tick consumed, by collection
Consumed ==
    [obstacles |-> {}, spikes |-> {}, coins |-> ev.coins, portals |-> ev.portals,
     gravity_portals |-> ev.gportals, jump_pads |-> ev.pads]

\* C26. Entity collections only shrink within a run: no tick and no jump
\* request adds an obstacle, spike, coin, portal or pad; a tick of a living
\* run keeps the entities it does not remove, in order, only scrolled; an
\* obstacle or spike leaves its collection only when the prune loop takes
\* it, a coin, portal or pad only so or when the player overlaps it; what
\* has left is never back, so each entity is removed at most once.  A tick
\* of an ended run, a jump request and a failed restart leave the
\* collections as they are.
C26_CollectionsOnlyShrink ==
    /\ \A c \in Collections : Cardinality(Ids(self[c])) = Len(self[c])
    /\ WasAliveTick =>
          \A c \in Collections :
              LET before == last.pre[c]
                  after == self[c]
                  dx == last.pre.scroll_speed * last.dt
                  at(id) == CHOOSE i \in 1..Len(before) : before[i].id = id
                  gone == Ids(before) \ Ids(after)
              IN  /\ Ids(after) \subseteq Ids(before)
                  /\ \A j \in 1..Len(after) :
                        after[j] = [before[at(after[j].id)] EXCEPT !.center_x = @ - dx]
                  /\ \A j \in 1..(Len(after) - 1) : at(after[j].id) < at(after[j + 1].id)
                  /\ \A id \in gone : <<c, id>> \in ev.pruned \/ id \in Consumed[c]
                  /\ \A id \in gone : ~(<<c, id>> \in ev.pruned /\ id \in Consumed[c])
                  /\ \A id \in Consumed[c] :
                        Collides(Steps.dust.player, Steps.pruned[c][
                            CHOOSE i \in 1..Len(Steps.pruned[c]) : Steps.pruned[c][i].id = id])
                  /\ \A id \in gone : <<c, id>> \notin last.pre_hist.pruned
    /\ (IsTick /\ ~last.pre.alive) \/ IsJump \/ last.op = "setup raised" =>
          \A c \in Collections : self[c] = last.pre[c]

\* a tick that lost one entity to the prune loop and another to an overlap
\* and kept the obstacles
C26_Witness ==
    /\ WasAliveTick /\ ev.pruned # {}
    /\ \E c \in Collections : Consumed[c] # {}
    /\ self.obstacles # <<>>
    /\ Len(self.obstacles) = Len(last.pre.obstacles)
    /\ Cardinality(Entities(self)) <= Cardinality(Entities(last.pre)) - 2

=============================================================================
